---- MODULE Spec2Model ----
(***************************************************************************)
(* NLPurge: the email text cleaner (email_cleaner_fixed.py), the older     *)
(* cleaner (clean_email_content.py) and the batch driver                   *)
(* (clean_all_emails.py).                                                  *)
(*                                                                         *)
(* A text is a sequence of characters.  A character is a one-character     *)
(* string, or the name of a code point outside ASCII:                      *)
(*   "NBSP" U+00A0, "EMDASH" U+2014, "ENDASH" U+2013, "COPYRIGHT" U+00A9,  *)
(*   and "BACKQUOTE" U+0060, which the lexer does not take in a string.    *)
(* Python's None is the value None below, which is no text.               *)
(***************************************************************************)
EXTENDS Integers, Sequences, FiniteSets, TLC

None == <<"None">>

\* ------------------------------------------------------------------------
\* Character classes of Python's re module and of str.strip
\* ------------------------------------------------------------------------

UpperCase ==
    <<"A", "B", "C", "D", "E", "F", "G", "H", "I", "J", "K", "L", "M",
      "N", "O", "P", "Q", "R", "S", "T", "U", "V", "W", "X", "Y", "Z">>

LowerCase ==
    <<"a", "b", "c", "d", "e", "f", "g", "h", "i", "j", "k", "l", "m",
      "n", "o", "p", "q", "r", "s", "t", "u", "v", "w", "x", "y", "z">>

Digits == {"0", "1", "2", "3", "4", "5", "6", "7", "8", "9"}

IsUpper(c) == \E i \in 1..26 : UpperCase[i] = c

IsAlpha(c) == \E i \in 1..26 : UpperCase[i] = c \/ LowerCase[i] = c

IsDigit(c) == c \in Digits

\* \w
IsWord(c) == IsAlpha(c) \/ IsDigit(c) \/ c = "_"

\* \s, and the characters str.strip() removes
IsSpace(c) == c \in {" ", "\n", "\t", "\r", "NBSP"}

\* re.IGNORECASE compares case-folded characters
ToLower(c) ==
    IF IsUpper(c) THEN LowerCase[CHOOSE i \in 1..26 : UpperCase[i] = c] ELSE c

\* ------------------------------------------------------------------------
\* str and re primitives
\* ------------------------------------------------------------------------

Contains(s, c) == \E i \in 1..Len(s) : s[i] = c

\* the literal p occurs in s at position i
AtPos(s, i, p) ==
    /\ i >= 1
    /\ i + Len(p) - 1 <= Len(s)
    /\ \A k \in 1..Len(p) : s[i + k - 1] = p[k]

\* the same, under re.IGNORECASE
AtPosCI(s, i, p) ==
    /\ i >= 1
    /\ i + Len(p) - 1 <= Len(s)
    /\ \A k \in 1..Len(p) : ToLower(s[i + k - 1]) = ToLower(p[k])

\* number of consecutive characters of s from position i on that satisfy In
RunLen(s, i, In(_)) ==
    LET stop == {j \in i..Len(s) : ~In(s[j])}
    IN  IF i > Len(s) THEN 0
        ELSE IF stop = {} THEN Len(s) - i + 1
        ELSE (CHOOSE j \in stop : \A k \in stop : j <= k) - i

\* smallest position >= i at which the literal p occurs, 0 when there is none
Find(s, i, p) ==
    LET hits == {j \in i..Len(s) : AtPos(s, j, p)}
    IN  IF hits = {} THEN 0 ELSE CHOOSE j \in hits : \A k \in hits : j <= k

FindCI(s, i, p) ==
    LET hits == {j \in i..Len(s) : AtPosCI(s, j, p)}
    IN  IF hits = {} THEN 0 ELSE CHOOSE j \in hits : \A k \in hits : j <= k

\* the one element of a singleton set
Only(S) == CHOOSE x \in S : TRUE

\* the smallest k with 2^k > n
Levels(n) == CHOOSE k \in 0..n : 2^k > n /\ \A j \in 0..(k - 1) : 2^j <= n

\* One pass over s from left to right.  Token(s, i) is <<n, out>>: n >= 1
\* when the n characters from position i on are taken together and out is
\* put in their place, n = 0 when the character at i is copied.  The pass
\* is computed by halving: seg[k, i] is the position reached and the output
\* written after 2^k tokens from position i on.
Scan(s, Token(_, _)) ==
    LET seg[ki \in (0..Len(s)) \X (1..(Len(s) + 1))] ==
            IF ki[2] > Len(s) THEN <<ki[2], <<>>>>
            ELSE IF ki[1] = 0
            THEN Only({IF t[1] > 0 THEN <<ki[2] + t[1], t[2]>>
                                   ELSE <<ki[2] + 1, <<s[ki[2]]>>>> :
                          t \in {Token(s, ki[2])}})
            ELSE Only({Only({<<b[1], a[2] \o b[2]>> : b \in {seg[<<ki[1] - 1, a[1]>>]}}) :
                          a \in {seg[<<ki[1] - 1, ki[2]>>]}})
    IN  seg[<<Levels(Len(s)), 1>>][2]

\* re.sub(pattern, rep, s): MatchLen(s, i) is the length of the pattern's
\* match starting at position i (0: no match there; no pattern used here
\* matches the empty string).  Matches are taken leftmost, non-overlapping.
SubAll(s, MatchLen(_, _), rep) ==
    LET Token(t, i) == <<MatchLen(t, i), rep>>
    IN  Scan(s, Token)

\* str.replace(old, new)
Replace(s, old, new) ==
    LET M(t, i) == IF AtPos(t, i, old) THEN Len(old) ELSE 0
    IN  SubAll(s, M, new)

\* str.strip()
Strip(s) ==
    LET keep == {i \in 1..Len(s) : ~IsSpace(s[i])}
    IN  IF keep = {} THEN <<>>
        ELSE SubSeq(s, CHOOSE i \in keep : \A k \in keep : i <= k,
                       CHOOSE i \in keep : \A k \in keep : i >= k)

\* str.split('\n'): always at least one line
RECURSIVE SplitLines(_)
SplitLines(s) ==
    LET i == Find(s, 1, <<"\n">>)
    IN  IF i = 0 THEN <<s>>
        ELSE <<SubSeq(s, 1, i - 1)>> \o SplitLines(SubSeq(s, i + 1, Len(s)))

\* '\n'.join(lines)
RECURSIVE JoinLines(_)
JoinLines(lines) ==
    IF Len(lines) = 0 THEN <<>>
    ELSE IF Len(lines) = 1 THEN lines[1]
    ELSE lines[1] \o <<"\n">> \o JoinLines(Tail(lines))

\* [x for x in seq if Keep(x)]
Filter(seq, Keep(_)) ==
    LET f[i \in 1..(Len(seq) + 1)] ==
            IF i > Len(seq) THEN <<>>
            ELSE (IF Keep(seq[i]) THEN <<seq[i]>> ELSE <<>>) \o f[i + 1]
    IN  f[1]

\* <open[^>]*>.*?close with re.DOTALL | re.IGNORECASE, matched at position i
BlockMatchLen(s, i, open, close) ==
    IF ~AtPosCI(s, i, open) THEN 0
    ELSE LET g == Find(s, i + Len(open), <<">">>)
             e == IF g = 0 THEN 0 ELSE FindCI(s, g + 1, close)
         IN  IF e = 0 THEN 0 ELSE e + Len(close) - i

\* ------------------------------------------------------------------------
\* EmailCleaner: stage 1, decode_html_entities
\* ------------------------------------------------------------------------

\* self.html_entities, in insertion order
html_entities ==
    << <<<<"&", "n", "b", "s", "p", ";">>, <<" ">>>>,
       <<<<"&", "a", "m", "p", ";">>, <<"&">>>>,
       <<<<"&", "l", "t", ";">>, <<"<">>>>,
       <<<<"&", "g", "t", ";">>, <<">">>>>,
       <<<<"&", "q", "u", "o", "t", ";">>, <<"\"">>>>,
       <<<<"&", "#", "3", "9", ";">>, <<"'">>>>,
       <<<<"&", "a", "p", "o", "s", ";">>, <<"'">>>> >>

\* for entity, replacement in self.html_entities.items():
\*     text = text.replace(entity, replacement)
RECURSIVE ManualDecodeFrom(_, _)
ManualDecodeFrom(text, k) ==
    IF k > Len(html_entities) THEN text
    ELSE ManualDecodeFrom(Replace(text, html_entities[k][1], html_entities[k][2]), k + 1)

ManualDecode(text) == ManualDecodeFrom(text, 1)

\* What the markup parser does with the entity at position i: the length of
\* the entity and the character it stands for (&nbsp; is U+00A0 there).
SoupEntity(s, i) ==
    LET hits == {k \in 1..Len(html_entities) : AtPos(s, i, html_entities[k][1])}
        e == CHOOSE k \in hits : TRUE
    IN  IF hits = {} THEN <<0, <<>>>>
        ELSE <<Len(html_entities[e][1]),
               IF e = 1 THEN <<"NBSP">> ELSE html_entities[e][2]>>

\* Length of the markup construct that starts at position i, 0 when the "<"
\* there is plain text: a start tag "<" letter ... ">", an end tag or bogus
\* end tag "</" ... ">", a declaration or processing instruction
\* "<!" ... ">", "<?" ... ">".  A construct with no closing ">" is text.
SoupTagLen(s, i) ==
    IF ~(s[i] = "<" /\ i < Len(s)) THEN 0
    ELSE IF ~(IsAlpha(s[i + 1]) \/ s[i + 1] \in {"/", "!", "?"}) THEN 0
    ELSE LET g == Find(s, i + 1, <<">">>)
         IN  IF g = 0 THEN 0 ELSE g - i + 1

\* BeautifulSoup(text, 'html.parser').get_text(): the text outside the tags,
\* with the entities decoded.  The texts of this model hold no script or
\* style element, no comment and no quoted attribute value.
SoupText(s) ==
    LET Token(t, i) == IF SoupTagLen(t, i) > 0 THEN <<SoupTagLen(t, i), <<>>>>
                       ELSE SoupEntity(t, i)
    IN  Scan(s, Token)

\* parserRaises: BeautifulSoup raises on this text, and the except branch
\* decodes by hand
decode_html_entities(text, parserRaises) ==
    IF Contains(text, "<") /\ Contains(text, ">")
    THEN IF parserRaises THEN ManualDecode(text) ELSE SoupText(text)
    ELSE ManualDecode(text)

\* ------------------------------------------------------------------------
\* stage 2, remove_html_tags
\* ------------------------------------------------------------------------

\* <[^>]+>
TagMatchLen(s, i) ==
    IF ~(s[i] = "<" /\ i < Len(s) /\ s[i + 1] # ">") THEN 0
    ELSE LET g == Find(s, i + 1, <<">">>)
         IN  IF g = 0 THEN 0 ELSE g - i + 1

ScriptMatchLen(s, i) ==
    BlockMatchLen(s, i, <<"<", "s", "c", "r", "i", "p", "t">>,
                  <<"<", "/", "s", "c", "r", "i", "p", "t", ">">>)

StyleMatchLen(s, i) ==
    BlockMatchLen(s, i, <<"<", "s", "t", "y", "l", "e">>,
                  <<"<", "/", "s", "t", "y", "l", "e", ">">>)

\* /\*.*?\*/ with re.DOTALL
CssCommentMatchLen(s, i) ==
    IF ~AtPos(s, i, <<"/", "*">>) THEN 0
    ELSE LET e == Find(s, i + 2, <<"*", "/">>)
         IN  IF e = 0 THEN 0 ELSE e + 2 - i

\* the four substitutions, the innermost first
remove_html_tags(text) ==
    SubAll(SubAll(SubAll(SubAll(text,
        TagMatchLen, <<" ">>),
        ScriptMatchLen, <<>>),
        StyleMatchLen, <<>>),
        CssCommentMatchLen, <<>>)

\* ------------------------------------------------------------------------
\* stage 3, convert_links_to_text
\* ------------------------------------------------------------------------

\* the class [^\s<>...] of the two URL patterns: anything but whitespace,
\* angle brackets, the double quote, braces, bar, backslash, caret,
\* backquote and square brackets
IsUrlChar(c) ==
    ~IsSpace(c) /\ c \notin {"<", ">", "\"", "{", "}", "|", "\\", "^", "BACKQUOTE", "[", "]"}

\* https?:// and one or more URL characters
HttpMatchLen(s, i) ==
    LET http == <<"h", "t", "t", "p">>
        sep  == <<":", "/", "/">>
        body == IF AtPos(s, i, http \o <<"s">> \o sep) THEN i + 8
                ELSE IF AtPos(s, i, http \o sep) THEN i + 7
                ELSE 0
        n    == IF body = 0 THEN 0 ELSE RunLen(s, body, IsUrlChar)
    IN  IF n = 0 THEN 0 ELSE body + n - i

\* www\. and one or more URL characters
WwwMatchLen(s, i) ==
    LET n == IF AtPos(s, i, <<"w", "w", "w", ".">>) THEN RunLen(s, i + 4, IsUrlChar) ELSE 0
    IN  IF n = 0 THEN 0 ELSE 4 + n

\* \b between positions i - 1 and i
WordBoundary(s, i) ==
    LET before == i > 1 /\ i - 1 <= Len(s) /\ IsWord(s[i - 1])
        after  == i >= 1 /\ i <= Len(s) /\ IsWord(s[i])
    IN  before # after

\* [A-Za-z0-9._%+-]
IsLocalChar(c) == IsAlpha(c) \/ IsDigit(c) \/ c \in {".", "_", "%", "+", "-"}

\* [A-Za-z0-9.-]
IsDomainChar(c) == IsAlpha(c) \/ IsDigit(c) \/ c \in {".", "-"}

\* [A-Z|a-z]
IsTldChar(c) == IsAlpha(c) \/ c = "|"

\* \b[A-Za-z0-9._%+-]+@[A-Za-z0-9.-]+\.[A-Z|a-z]{2,}\b
\* The local part runs to the "@"; the domain is greedy, so the dot taken is
\* the last one of the domain run that 2+ letters and a \b can follow; the
\* letters are greedy, so their end is the last one at which \b holds.
EmailMatchLen(s, i) ==
    LET l    == RunLen(s, i, IsLocalChar)
        at   == i + l
        d    == IF l > 0 /\ at <= Len(s) /\ s[at] = "@"
                THEN RunLen(s, at + 1, IsDomainChar) ELSE 0
        ends(p) == {e \in (p + 2)..(p + RunLen(s, p + 1, IsTldChar)) :
                        WordBoundary(s, e + 1)}
        dots == {p \in (at + 2)..(at + d) : s[p] = "." /\ ends(p) # {}}
        dot  == CHOOSE p \in dots : \A q \in dots : p >= q
        end  == CHOOSE e \in ends(dot) : \A q \in ends(dot) : e >= q
    IN  IF ~WordBoundary(s, i) \/ dots = {} THEN 0 ELSE end - i + 1

\* \b\d{3}[-.]?\d{3}[-.]?\d{4}\b
PhoneMatchLen(s, i) ==
    LET sepAt(p) == IF p <= Len(s) /\ s[p] \in {"-", "."} THEN 1 ELSE 0
        digits(p, n) == p + n - 1 <= Len(s) /\ \A k \in p..(p + n - 1) : IsDigit(s[k])
        a == i + 3 + sepAt(i + 3)
        b == a + 3 + sepAt(a + 3)
    IN  IF /\ WordBoundary(s, i)
           /\ digits(i, 3) /\ digits(a, 3) /\ digits(b, 4)
           /\ WordBoundary(s, b + 4)
        THEN b + 4 - i ELSE 0

\* \[link\].*?\[/link\] with re.IGNORECASE
BracketLinkMatchLen(s, i) ==
    LET open  == <<"[", "l", "i", "n", "k", "]">>
        close == <<"[", "/", "l", "i", "n", "k", "]">>
        e     == IF AtPosCI(s, i, open) THEN FindCI(s, i + Len(open), close) ELSE 0
    IN  IF e = 0 \/ Contains(SubSeq(s, i, e), "\n") THEN 0 ELSE e + Len(close) - i

\* <a[^>]*>.*?</a> with re.IGNORECASE
AnchorMatchLen(s, i) ==
    LET n == BlockMatchLen(s, i, <<"<", "a">>, <<"<", "/", "a", ">">>)
        g == Find(s, i + 2, <<">">>)
    IN  IF n = 0 \/ Contains(SubSeq(s, g + 1, i + n - 1), "\n") THEN 0 ELSE n

\* the six substitutions, the innermost first
convert_links_to_text(text) ==
    SubAll(SubAll(SubAll(SubAll(SubAll(SubAll(text,
        HttpMatchLen, <<"l", "i", "n", "k">>),
        WwwMatchLen, <<"l", "i", "n", "k">>),
        EmailMatchLen, <<"e", "m", "a", "i", "l">>),
        PhoneMatchLen, <<"p", "h", "o", "n", "e">>),
        BracketLinkMatchLen, <<"l", "i", "n", "k">>),
        AnchorMatchLen, <<"l", "i", "n", "k">>)

\* ------------------------------------------------------------------------
\* stage 4, remove_signatures
\* ------------------------------------------------------------------------

\* self.signature_patterns[0], --\s*\n, searched in one line
SeparatorFound(line) ==
    \E i \in 1..Len(line) :
        /\ AtPos(line, i, <<"-", "-">>)
        /\ \E j \in (i + 2)..Len(line) :
              /\ line[j] = "\n"
              /\ \A k \in (i + 2)..(j - 1) : IsSpace(line[k])

\* the patterns of self.signature_patterns that are plain phrases, in the
\* order of the list: entries 1..11 and 13..16
SignaturePhrases ==
    <<
       <<"S", "e", "n", "t", " ", "f", "r", "o", "m", " ", "m", "y", " ",
         "i", "P", "h", "o", "n", "e">>,
       <<"S", "e", "n", "t", " ", "f", "r", "o", "m", " ", "m", "y", " ",
         "A", "n", "d", "r", "o", "i", "d">>,
       <<"G", "e", "t", " ", "O", "u", "t", "l", "o", "o", "k", " ", "f",
         "o", "r", " ", "i", "O", "S">>,
       <<"G", "e", "t", " ", "O", "u", "t", "l", "o", "o", "k", " ", "f",
         "o", "r", " ", "A", "n", "d", "r", "o", "i", "d">>,
       <<"T", "h", "i", "s", " ", "e", "m", "a", "i", "l", " ", "w", "a",
         "s", " ", "s", "e", "n", "t", " ", "f", "r", "o", "m", " ", "a",
         " ", "n", "o", "t", "i", "f", "i", "c", "a", "t", "i", "o", "n",
         "-", "o", "n", "l", "y", " ", "a", "d", "d", "r", "e", "s", "s">>,
       <<"P", "l", "e", "a", "s", "e", " ", "d", "o", " ", "n", "o", "t",
         " ", "r", "e", "p", "l", "y", " ", "t", "o", " ", "t", "h", "i",
         "s", " ", "e", "m", "a", "i", "l">>,
       <<"T", "o", " ", "u", "n", "s", "u", "b", "s", "c", "r", "i", "b",
         "e">>,
       <<"C", "l", "i", "c", "k", " ", "h", "e", "r", "e", " ", "t", "o",
         " ", "u", "n", "s", "u", "b", "s", "c", "r", "i", "b", "e">>,
       <<"I", "f", " ", "y", "o", "u", " ", "r", "e", "c", "e", "i", "v",
         "e", "d", " ", "t", "h", "i", "s", " ", "e", "m", "a", "i", "l",
         " ", "i", "n", " ", "e", "r", "r", "o", "r">>,
       <<"T", "h", "i", "s", " ", "i", "s", " ", "a", "n", " ", "a", "u",
         "t", "o", "m", "a", "t", "e", "d", " ", "m", "e", "s", "s", "a",
         "g", "e">>,
       <<"P", "o", "w", "e", "r", "e", "d", " ", "b", "y">>,
       <<"A", "l", "l", " ", "r", "i", "g", "h", "t", "s", " ", "r", "e",
         "s", "e", "r", "v", "e", "d">>,
       <<"C", "o", "n", "f", "i", "d", "e", "n", "t", "i", "a", "l", "i",
         "t", "y", " ", "N", "o", "t", "i", "c", "e">>,
       <<"T", "h", "i", "s", " ", "m", "e", "s", "s", "a", "g", "e", " ",
         "i", "s", " ", "i", "n", "t", "e", "n", "d", "e", "d", " ", "o",
         "n", "l", "y", " ", "f", "o", "r">>,
       <<"I", "f", " ", "y", "o", "u", " ", "a", "r", "e", " ", "n", "o",
         "t", " ", "t", "h", "e", " ", "i", "n", "t", "e", "n", "d", "e",
         "d", " ", "r", "e", "c", "i", "p", "i", "e", "n", "t">>
    >>

\* self.signature_patterns[12], the copyright sign, a space and four digits
CopyrightFound(line) ==
    \E i \in 1..Len(line) :
        /\ i + 5 <= Len(line)
        /\ line[i] = "COPYRIGHT"
        /\ line[i + 1] = " "
        /\ \A k \in (i + 2)..(i + 5) : IsDigit(line[k])

\* any(re.search(pattern, line, re.IGNORECASE) for pattern in the list)
IsSignature(line) ==
    \/ SeparatorFound(line)
    \/ \E k \in 1..Len(SignaturePhrases) :
          \E i \in 1..Len(line) : AtPosCI(line, i, SignaturePhrases[k])
    \/ CopyrightFound(line)

remove_signatures(text) ==
    LET NotSignature(line) == ~IsSignature(line)
    IN  JoinLines(Filter(SplitLines(text), NotSignature))

\* ------------------------------------------------------------------------
\* stage 5, normalize_whitespace
\* ------------------------------------------------------------------------

\* a run of two or more c, for the patterns c{2,} and [c]{2,}; ' +' replaces
\* a single space by itself, so runs of two or more are what it changes
RepeatLen(s, i, c) ==
    LET Same(x) == x = c
        n == RunLen(s, i, Same)
    IN  IF n >= 2 THEN n ELSE 0

\* \n\s*\n: \s* is greedy, so the match ends at the last newline of the
\* whitespace run that follows the first one
BlankLinesMatchLen(s, i) ==
    LET n    == RunLen(s, i + 1, IsSpace)
        nls  == {j \in (i + 1)..(i + n) : s[j] = "\n"}
    IN  IF s[i] # "\n" \/ nls = {} THEN 0
        ELSE (CHOOSE j \in nls : \A k \in nls : j >= k) - i + 1

normalize_whitespace(text) ==
    LET Spaces(s, i) == RepeatLen(s, i, " ")
        NonEmpty(line) == line # <<>>
        t1 == SubAll(text, Spaces, <<" ">>)
        t2 == SubAll(t1, BlankLinesMatchLen, <<"\n">>)
        split == SplitLines(t2)
        lines == [k \in 1..Len(split) |-> Strip(split[k])]
    IN  JoinLines(Filter(lines, NonEmpty))

\* ------------------------------------------------------------------------
\* stage 6, clean_punctuation
\* ------------------------------------------------------------------------

\* a variant of clean_punctuation that shortens a run by replacing each pair
\* of equal marks by one mark, in one pass
clean_punctuation_pairwise(text) ==
    LET Pair(c) == <<c, c>>
        t1 == Replace(text, Pair("!"), <<"!">>)
        t2 == Replace(t1, Pair("?"), <<"?">>)
        t3 == Replace(t2, Pair("."), <<".">>)
    IN  Replace(t3, Pair(","), <<",">>)

clean_punctuation(text) ==
    LET Bangs(s, i)  == RepeatLen(s, i, "!")
        Marks(s, i)  == RepeatLen(s, i, "?")
        Dots(s, i)   == RepeatLen(s, i, ".")
        Commas(s, i) == RepeatLen(s, i, ",")
    IN  SubAll(SubAll(SubAll(SubAll(text, Bangs, <<"!">>), Marks, <<"?">>),
                      Dots, <<".">>), Commas, <<",">>)

\* ------------------------------------------------------------------------
\* stage 7, normalize_unicode
\* ------------------------------------------------------------------------

\* unicodedata.normalize('NFKC', text) on the characters of this model: the
\* no-break space has the compatibility decomposition SPACE, the others are
\* their own normal form
NFKC(text) == [k \in 1..Len(text) |-> IF text[k] = "NBSP" THEN " " ELSE text[k]]

\* The two smart-quote lines hold ASCII quotes in the source: the first
\* replaces the double quote by itself; in the second the three apostrophes
\* open a triple-quoted string, which makes the line one call that replaces
\* the 15 characters between the two triple quotes by an apostrophe.
normalize_unicode(text) ==
    LET t1 == NFKC(text)
        t2 == Replace(Replace(t1, <<"\"">>, <<"\"">>), <<"\"">>, <<"\"">>)
        t3 == Replace(t2, <<",", " ", "\"", "'", "\"", ")", ".",
                            "r", "e", "p", "l", "a", "c", "e", "(">>, <<"'">>)
    IN  Replace(Replace(t3, <<"EMDASH">>, <<"-">>), <<"ENDASH">>, <<"-">>)

\* ------------------------------------------------------------------------
\* clean_email_text, clean_subject, clean_sender
\* ------------------------------------------------------------------------

\* "if not text"
Falsy(text) == text = None \/ text = <<>>


\* The values of the local variable text of clean_email_text after each of
\* the stages 1..7, each stage applied to the value the one before left.
\* parserRaises: the markup parser of stage 1 raises, which
\* decode_html_entities handles itself.
Stage(k, text, parserRaises) ==
    CASE k = 1 -> decode_html_entities(text, parserRaises)
      [] k = 2 -> remove_html_tags(text)
      [] k = 3 -> convert_links_to_text(text)
      [] k = 4 -> remove_signatures(text)
      [] k = 5 -> normalize_whitespace(text)
      [] k = 6 -> clean_punctuation(text)
      [] k = 7 -> normalize_unicode(text)

Pipeline(text, parserRaises) ==
    LET after[k \in 0..7] ==
            IF k = 0 THEN <<>>
            ELSE Only({Append(p, Stage(k, IF k = 1 THEN text ELSE p[k - 1], parserRaises)) :
                          p \in {after[k - 1]}})
    IN  after[7]

\* fault = 0: no stage raises.  fault = 1: the markup parser raises inside
\* stage 1.  fault = k in 2..7: stage k raises, and the except branch
\* returns the current value of the local variable text, stripped: the
\* value stage k - 1 left.
clean_email_text(text, fault) ==
    LET done == IF fault \in 2..7 THEN fault - 1 ELSE 7
    IN  IF Falsy(text) THEN <<>>
        ELSE Only({Strip(p[done]) : p \in {Pipeline(text, fault = 1)}})

NoSubject == <<"N", "o", " ", "S", "u", "b", "j", "e", "c", "t">>

UnknownSender == <<"U", "n", "k", "n", "o", "w", "n", " ", "S", "e", "n", "d", "e", "r">>

\* ^(RE|FWD|FW|FWD|RE:)\s*:?\s* with re.IGNORECASE: the first alternative
\* that fits is kept, since everything after the group may match nothing
PrefixMatchLen(s) ==
    LET g == IF AtPosCI(s, 1, <<"R", "E">>) THEN 2
             ELSE IF AtPosCI(s, 1, <<"F", "W", "D">>) THEN 3
             ELSE IF AtPosCI(s, 1, <<"F", "W">>) THEN 2
             ELSE 0
        a == g + RunLen(s, g + 1, IsSpace)
        b == IF a + 1 <= Len(s) /\ s[a + 1] = ":" THEN a + 1 ELSE a
    IN  IF g = 0 THEN 0 ELSE b + RunLen(s, b + 1, IsSpace)

\* cleaned if cleaned else "No Subject"
OrNoSubject(cleaned) == IF cleaned # <<>> THEN cleaned ELSE NoSubject

clean_subject(subject, fault) ==
    IF Falsy(subject) THEN NoSubject
    ELSE OrNoSubject(clean_email_text(
             SubSeq(subject, PrefixMatchLen(subject) + 1, Len(subject)), fault))

\* a variant of clean_sender that returns group 0, the match with its
\* angle brackets
clean_sender_group0(sender) ==
    LET opens == {i \in 1..Len(sender) : TagMatchLen(sender, i) > 0}
        i == CHOOSE p \in opens : \A q \in opens : p <= q
    IN  IF Falsy(sender) THEN UnknownSender
        ELSE IF opens # {} THEN SubSeq(sender, i, i + TagMatchLen(sender, i) - 1)
        ELSE sender

\* re.search(r'<([^>]+)>', sender): the leftmost "<" that one or more
\* characters other than ">" and then a ">" follow; group 1 is what is
\* between them
clean_sender(sender) ==
    LET opens == {i \in 1..Len(sender) : TagMatchLen(sender, i) > 0}
        i == CHOOSE p \in opens : \A q \in opens : p <= q
    IN  IF Falsy(sender) THEN UnknownSender
        ELSE IF opens # {} THEN SubSeq(sender, i + 1, i + TagMatchLen(sender, i) - 2)
        ELSE sender

\* ------------------------------------------------------------------------
\* clean_email_content.py: clean_email_content
\* ------------------------------------------------------------------------

\* The character references html.unescape knows, among those the texts of
\* this model can hold.  It matches "&" and a name and looks the name up;
\* a name the table lacks is replaced by its longest prefix the table has,
\* which accepts amp, lt, gt, quot and nbsp without their semicolon.
CharRefs ==
    << <<<<"&", "n", "b", "s", "p", ";">>, <<"NBSP">>>>,
       <<<<"&", "q", "u", "o", "t", ";">>, <<"\"">>>>,
       <<<<"&", "a", "p", "o", "s", ";">>, <<"'">>>>,
       <<<<"&", "a", "m", "p", ";">>, <<"&">>>>,
       <<<<"&", "#", "3", "9", ";">>, <<"'">>>>,
       <<<<"&", "l", "t", ";">>, <<"<">>>>,
       <<<<"&", "g", "t", ";">>, <<">">>>>,
       <<<<"&", "n", "b", "s", "p">>, <<"NBSP">>>>,
       <<<<"&", "q", "u", "o", "t">>, <<"\"">>>>,
       <<<<"&", "a", "m", "p">>, <<"&">>>>,
       <<<<"&", "l", "t">>, <<"<">>>>,
       <<<<"&", "g", "t">>, <<">">>>> >>

\* the reference that starts at position i: <<its length, its character>>,
\* <<0, <<>>>> when there is none
CharRefAt(s, i) ==
    LET hits == {e \in 1..Len(CharRefs) : AtPos(s, i, CharRefs[e][1])}
        e == CHOOSE h \in hits : \A k \in hits : h <= k
    IN  IF hits = {} THEN <<0, <<>>>> ELSE <<Len(CharRefs[e][1]), CharRefs[e][2]>>

\* html.unescape(text): one pass, left to right
unescape(s) == Scan(s, CharRefAt)

\* \s+
SpaceRunLen(s, i) == RunLen(s, i, IsSpace)

NotSpace(c) == ~IsSpace(c)

\* https?://[^\s]+
HttpAnyMatchLen(s, i) ==
    LET http == <<"h", "t", "t", "p">>
        sep  == <<":", "/", "/">>
        body == IF AtPos(s, i, http \o <<"s">> \o sep) THEN i + 8
                ELSE IF AtPos(s, i, http \o sep) THEN i + 7
                ELSE 0
        n    == IF body = 0 THEN 0 ELSE RunLen(s, body, NotSpace)
    IN  IF n = 0 THEN 0 ELSE body + n - i

\* www\.[^\s]+
WwwAnyMatchLen(s, i) ==
    LET n == IF AtPos(s, i, <<"w", "w", "w", ".">>) THEN RunLen(s, i + 4, NotSpace) ELSE 0
    IN  IF n = 0 THEN 0 ELSE 4 + n

\* [c]{2,} replaced by c for the three marks
ContentPunctuation(text) ==
    LET Bangs(s, i)  == RepeatLen(s, i, "!")
        Marks(s, i)  == RepeatLen(s, i, "?")
        Dots(s, i)   == RepeatLen(s, i, ".")
    IN  SubAll(SubAll(SubAll(text, Bangs, <<"!">>), Marks, <<"?">>), Dots, <<".">>)

\* ' +' replaced by one space
ContentSpaces(text) ==
    LET Blanks(s, i) == LET Blank(c) == c = " " IN RunLen(s, i, Blank)
    IN  SubAll(text, Blanks, <<" ">>)

\* the k-th step of clean_email_content after "if not text"
ContentStep(k, text) ==
    CASE k = 1 -> unescape(text)
      [] k = 2 -> SoupText(text)
      [] k = 3 -> Strip(SubAll(text, SpaceRunLen, <<" ">>))
      [] k = 4 -> SubAll(text, HttpAnyMatchLen, <<"l", "i", "n", "k">>)
      [] k = 5 -> SubAll(text, WwwAnyMatchLen, <<"l", "i", "n", "k">>)
      [] k = 6 -> SubAll(text, EmailMatchLen, <<"e", "m", "a", "i", "l">>)
      [] k = 7 -> SubAll(text, PhoneMatchLen, <<"p", "h", "o", "n", "e">>)
      [] k = 8 -> ContentPunctuation(text)
      [] k = 9 -> Strip(ContentSpaces(text))

\* the values of text after each step, each step applied to the value the
\* one before left
ContentSteps(text) ==
    LET after[k \in 0..9] ==
            IF k = 0 THEN <<>>
            ELSE Only({Append(p, ContentStep(k, IF k = 1 THEN text ELSE p[k - 1])) :
                          p \in {after[k - 1]}})
    IN  after[9]

clean_email_content(text) ==
    IF Falsy(text) THEN <<>> ELSE ContentSteps(text)[9]

\* ------------------------------------------------------------------------
\* Inputs of the cleaning functions
\* ------------------------------------------------------------------------

\* texts are built from at most MaxFrags fragments
MaxFrags == 3

\* every concatenation of at most n fragments of F
RECURSIVE Concats(_, _)
Concats(F, n) ==
    IF n = 0 THEN {<<>>}
    ELSE LET shorter == Concats(F, n - 1)
         IN  shorter \cup {p \o f : p \in shorter, f \in F}

EntityFrags ==
    { <<"&", "a", "m", "p", ";">>, <<"a", "m", "p", ";">>,
      <<"&", "l", "t", ";">>, <<"b">>, <<"&", "g", "t", ";">> }

MarkupFrags ==
    { <<"<", "b", ">">>, <<"x">>, <<"<", "/", "b", ">">>, <<" ">>,
      <<"&", "a", "m", "p", ";">> }

SpaceFrags == { <<" ">>, <<"\n">>, <<"a">>, <<"!">>, <<"NBSP">> }

SignatureFrags ==
    { <<"P", "o", "w", "e", "r", "e", "d">>, <<" ">>, <<"b", "y">>,
      <<"\n">>, <<".">> }

SubjectFrags ==
    { <<"R", "E", ":", " ">>,
      <<"M", "e", "e", "t", "i", "n", "g", " ", "t", "o", "m", "o", "r", "r", "o", "w">>,
      <<"F", "w", "d", ":">>, <<"f", "w">>, <<" ">> }

SenderFrags ==
    { <<"J", "a", "n", "e", " ", "D", "o", "e", " ">>,
      <<"<", "j", "a", "n", "e", "@", "e", "x", "a", "m", "p", "l", "e", ".", "c", "o", "m">>,
      <<">">>, <<"<">>, <<"x">> }

LinkFrags ==
    { <<"h", "t", "t", "p", "s", ":", "/", "/", "a", ".", "b">>, <<"<">>, <<">">>,
      <<" ">> }

SeparatorFrags == { <<"-", "-">>, <<"\n">>, <<"a">>, <<" ">> }

\* a body of two paragraphs with markup, a link and repeated punctuation
ExampleBody ==
    <<"<", "p", ">", "H", "e", "l", "l", "o", " ", "<", "b", ">", "w", "o",
      "r", "l", "d", "<", "/", "b", ">", "<", "/", "p", ">", "\n", "\n",
      "V", "i", "s", "i", "t", " ", "h", "t", "t", "p", "s", ":", "/", "/",
      "e", "x", "a", "m", "p", "l", "e", ".", "c", "o", "m", " ", "n", "o",
      "w", "!", "!", "!">>

\* None is what csv.DictReader gives for a field a short row lacks
TextArgs ==
    {None, ExampleBody}
        \cup Concats(EntityFrags, MaxFrags) \cup Concats(MarkupFrags, MaxFrags)
        \cup Concats(SpaceFrags, MaxFrags) \cup Concats(SignatureFrags, MaxFrags)
        \cup Concats(LinkFrags, MaxFrags) \cup Concats(SeparatorFrags, MaxFrags)

SubjectArgs == {None} \cup Concats(SubjectFrags, MaxFrags)

SenderArgs == {None} \cup Concats(SenderFrags, MaxFrags)

\* which stage raises, 0 for none
Faults == 0..7

\* ------------------------------------------------------------------------
\* State
\* ------------------------------------------------------------------------

VARIABLES
    fn,      \* the cleaning function that was called, "none" before the call
    arg,     \* its argument
    fault,   \* the stage that raises during the call
    ret,     \* what it returned
    ret2,    \* what clean_email_text returned for ret
    proc,    \* the record processor that runs, "none" when there is none
    header,  \* the column names of the input file
    rows,    \* the data rows of the input file
    pc,      \* where the record processor is
    row_num, \* the rows the reader has handed over
    status,  \* what became of each row the processor asked the reader for
    cleaned_emails,  \* the list clean_csv_file collects
    output,  \* the output file
    processed,
    skipped,
    printed, \* what the record processor has printed
    disk,    \* the three input files of the batch driver
    bpc,     \* where the batch driver is
    file_idx,        \* the file its loop is at
    total_processed,
    batch_printed    \* what the batch driver has printed

cleanVars == <<fn, arg, fault, ret, ret2>>

fileVars ==
    <<proc, header, rows, pc, row_num, status, cleaned_emails, output,
      processed, skipped, printed>>

batchVars == <<disk, bpc, file_idx, total_processed, batch_printed>>

vars == <<cleanVars, fileVars, batchVars>>

\* no file exists before it is opened for writing
NoOutput == [exists |-> FALSE, lines |-> <<>>]

NoCall == fn = "none" /\ arg = <<>> /\ fault = 0 /\ ret = <<>> /\ ret2 = <<>>

NoFile ==
    /\ proc = "none" /\ header = {} /\ rows = <<>> /\ pc = "idle"
    /\ row_num = 0 /\ status = <<>> /\ cleaned_emails = <<>>
    /\ output = NoOutput /\ processed = 0 /\ skipped = 0 /\ printed = <<>>

NoBatch ==
    /\ disk = <<>> /\ bpc = "none" /\ file_idx = 0
    /\ total_processed = 0 /\ batch_printed = <<>>

\* ------------------------------------------------------------------------
\* The cleaning functions, called on their own
\* ------------------------------------------------------------------------

\* decode_html_entities hands the text to the markup parser
UsesParser(text) == ~Falsy(text) /\ Contains(text, "<") /\ Contains(text, ">")

InitClean ==
    /\ fn = "none"
    /\ arg \in TextArgs \cup SubjectArgs \cup SenderArgs
    /\ fault \in Faults
    /\ fault = 1 => UsesParser(arg)
    /\ ret = <<>>
    /\ ret2 = <<>>
    /\ NoFile
    /\ NoBatch

CallCleanEmailText ==
    /\ fn = "none"
    /\ arg \in TextArgs
    /\ ret' = clean_email_text(arg, fault)
    /\ fn' = "clean_email_text"
    /\ UNCHANGED <<arg, fault, ret2, fileVars, batchVars>>

\* the cleaned text is cleaned again
CallCleanEmailTextAgain ==
    /\ fn = "clean_email_text"
    /\ fault = 0
    /\ ret2' = clean_email_text(ret, 0)
    /\ fn' = "clean_email_text twice"
    /\ UNCHANGED <<arg, fault, ret, fileVars, batchVars>>

CallCleanSubject ==
    /\ fn = "none"
    /\ arg \in SubjectArgs
    /\ ret' = clean_subject(arg, fault)
    /\ fn' = "clean_subject"
    /\ UNCHANGED <<arg, fault, ret2, fileVars, batchVars>>

CallCleanSender ==
    /\ fn = "none"
    /\ arg \in SenderArgs
    /\ fault = 0
    /\ ret' = clean_sender(arg)
    /\ fn' = "clean_sender"
    /\ UNCHANGED <<arg, fault, ret2, fileVars, batchVars>>

CallCleanEmailContent ==
    /\ fn = "none"
    /\ arg \in TextArgs
    /\ fault = 0
    /\ ret' = clean_email_content(arg)
    /\ fn' = "clean_email_content"
    /\ UNCHANGED <<arg, fault, ret2, fileVars, batchVars>>

NextClean ==
    \/ CallCleanEmailText
    \/ CallCleanEmailTextAgain
    \/ CallCleanSubject
    \/ CallCleanSender
    \/ CallCleanEmailContent

SpecClean == InitClean /\ [][NextClean]_vars

\* ------------------------------------------------------------------------
\* The input files and the csv writer
\* ------------------------------------------------------------------------

\* an input file has at most MaxRows data rows
MaxRows == 3

\* fieldnames of both writers
Fields == <<"subject", "sender", "body", "date">>

FieldNames ==
    << <<"s", "u", "b", "j", "e", "c", "t">>, <<"s", "e", "n", "d", "e", "r">>,
       <<"b", "o", "d", "y">>, <<"d", "a", "t", "e">> >>

\* the header of an input file: all four columns, or no date column
Headers == { {"subject", "sender", "body", "date"}, {"subject", "sender", "body"} }

\* The rows csv.DictReader can hand over: a full row, a short row (the
\* fields it lacks are None), a row whose fields hold the delimiter and a
\* line break.
RowPool ==
    { [subject |-> <<"R", "E", ":", " ", "a">>,
       sender  |-> <<"J", " ", "<", "j", ">">>,
       body    |-> <<"<", "b", ">", "x", "<", "/", "b", ">", " ", "!", "!">>,
       date    |-> <<" ", "1", " ", "J", "a", "n", " ", "!", "!", " ">>],
      [subject |-> <<"x">>, sender |-> None, body |-> None, date |-> None],
      [subject |-> <<>>,
       sender  |-> <<"s">>,
       body    |-> <<"a", ",", "b", "\n", "c">>,
       date    |-> <<"1", ",", " ", "&", "a", "m", "p", ";">>] }

\* the rows of the pool under a header
RowsUnder(h) == {[c \in h |-> r[c]] : r \in RowPool}

RECURSIVE Files(_, _)
Files(h, n) ==
    IF n = 0 THEN {<<>>}
    ELSE LET shorter == Files(h, n - 1)
         IN  shorter \cup {Append(f, r) : f \in shorter, r \in RowsUnder(h)}

\* row.get(key, '')
Get(row, key) == IF key \in DOMAIN row THEN row[key] ELSE <<>>

\* One field as the csv writer puts it in the file: None is written as the
\* empty string; QUOTE_ALL quotes every field, the default QUOTE_MINIMAL
\* only a field that holds the delimiter, the quote character or a
\* character of the line terminator.
WriteField(value, quoting) ==
    LET val == IF value = None THEN <<>> ELSE value
    IN  [val    |-> val,
         quoted |-> \/ quoting = "QUOTE_ALL"
                    \/ \E c \in {",", "\"", "\r", "\n"} : Contains(val, c)]

\* writer.writerow(row): the fields in the order of fieldnames; src is the
\* number of the input row the line was made from
writerow(row, quoting, src) ==
    [src |-> src, cells |-> [k \in 1..Len(Fields) |-> WriteField(row[Fields[k]], quoting)]]

\* writer.writeheader()
writeheader(quoting) ==
    [src |-> 0, cells |-> [k \in 1..Len(Fields) |-> WriteField(FieldNames[k], quoting)]]

Message(msg, n) == [msg |-> msg, n |-> n]

\* ------------------------------------------------------------------------
\* email_cleaner_fixed.py: process_csv_file
\* ------------------------------------------------------------------------

\* processed % 100 == 0 prints the progress
ProgressEvery == 100

\* a variant of cleaned_row that cleans the date like the body
cleaned_row_date_cleaned(row, f) ==
    [subject |-> clean_subject(Get(row, "subject"), 0),
     sender  |-> clean_sender(Get(row, "sender")),
     body    |-> clean_email_text(Get(row, "body"), f),
     date    |-> clean_email_text(Get(row, "date"), 0)]

\* the dictionary built from a row; f is the stage that raises while the
\* body is cleaned
cleaned_row(row, f) ==
    [subject |-> clean_subject(Get(row, "subject"), 0),
     sender  |-> clean_sender(Get(row, "sender")),
     body    |-> clean_email_text(Get(row, "body"), f),
     date    |-> Get(row, "date")]

\* both files open, the header is written, the counters start at 0
OpenFiles ==
    /\ proc = "process_csv_file" /\ pc = "start"
    /\ output' = [exists |-> TRUE, lines |-> <<writeheader("QUOTE_MINIMAL")>>]
    /\ processed' = 0
    /\ skipped' = 0
    /\ pc' = "loop"
    /\ UNCHANGED <<proc, header, rows, row_num, status, cleaned_emails, printed,
                   cleanVars, batchVars>>

\* open() raises for the input or for the output file: the outer handler
\* reports it and the function returns
OpenFails ==
    /\ proc = "process_csv_file" /\ pc = "start"
    /\ printed' = Append(printed, Message("Error processing file", 0))
    /\ pc' = "done"
    /\ UNCHANGED <<proc, header, rows, row_num, status, cleaned_emails, output,
                   processed, skipped, cleanVars, batchVars>>

\* the for statement takes the next row from the reader
ReadRow ==
    /\ proc = "process_csv_file" /\ pc = "loop"
    /\ row_num < Len(rows)
    /\ row_num' = row_num + 1
    /\ pc' = "row"
    /\ UNCHANGED <<proc, header, rows, status, cleaned_emails, output,
                   processed, skipped, printed, cleanVars, batchVars>>

\* the reader raises on the next row: the for statement is outside the
\* inner try, so the outer handler reports it and the function returns
ReadFails ==
    /\ proc = "process_csv_file" /\ pc = "loop"
    /\ row_num < Len(rows)
    /\ status' = Append(status, "unreadable")
    /\ printed' = Append(printed, Message("Error processing file", 0))
    /\ pc' = "done"
    /\ UNCHANGED <<proc, header, rows, row_num, cleaned_emails, output,
                   processed, skipped, cleanVars, batchVars>>

\* the body of the inner try runs to its end
WriteRow ==
    /\ proc = "process_csv_file" /\ pc = "row"
    /\ \E f \in Faults :
          /\ f # 0 => ~Falsy(Get(rows[row_num], "body"))
          /\ f = 1 => UsesParser(Get(rows[row_num], "body"))
          /\ output' = [output EXCEPT !.lines =
                 Append(@, writerow(cleaned_row(rows[row_num], f), "QUOTE_MINIMAL", row_num))]
    /\ processed' = processed + 1
    /\ printed' = IF processed' % ProgressEvery = 0
                  THEN Append(printed, Message("Processed", processed'))
                  ELSE printed
    /\ status' = Append(status, "written")
    /\ pc' = "loop"
    /\ UNCHANGED <<proc, header, rows, row_num, cleaned_emails, skipped,
                   cleanVars, batchVars>>

\* cleaning a field or writer.writerow raises: the inner handler
SkipRow ==
    /\ proc = "process_csv_file" /\ pc = "row"
    /\ printed' = Append(printed, Message("Skipping row", row_num))
    /\ skipped' = skipped + 1
    /\ status' = Append(status, "skipped")
    /\ pc' = "loop"
    /\ UNCHANGED <<proc, header, rows, row_num, cleaned_emails, output,
                   processed, cleanVars, batchVars>>

\* the reader is exhausted: the summary
EndOfFile ==
    /\ proc = "process_csv_file" /\ pc = "loop"
    /\ row_num = Len(rows)
    /\ printed' = printed \o <<Message("Successfully cleaned", processed)>>
                     \o (IF skipped > 0 THEN <<Message("Skipped", skipped)>> ELSE <<>>)
    /\ pc' = "done"
    /\ UNCHANGED <<proc, header, rows, row_num, status, cleaned_emails, output,
                   processed, skipped, cleanVars, batchVars>>

\* ------------------------------------------------------------------------
\* clean_email_content.py: clean_csv_file
\* ------------------------------------------------------------------------

\* the dictionary built from a row: the date as it is, the other fields
\* cleaned
content_row(row) ==
    [c \in {"subject", "sender", "body", "date"} |->
        IF c = "date" THEN Get(row, c) ELSE clean_email_content(Get(row, c))]

ContentOpenInput ==
    /\ proc = "clean_csv_file" /\ pc = "start"
    /\ pc' = "reading"
    /\ UNCHANGED <<proc, header, rows, row_num, status, cleaned_emails, output,
                   processed, skipped, printed, cleanVars, batchVars>>

\* no handler in clean_csv_file: what open() raises leaves the function
ContentOpenInputFails ==
    /\ proc = "clean_csv_file" /\ pc = "start"
    /\ pc' = "raised"
    /\ UNCHANGED <<proc, header, rows, row_num, status, cleaned_emails, output,
                   processed, skipped, printed, cleanVars, batchVars>>

\* one turn of the reading loop: the row is cleaned and kept in the list
ContentReadRow ==
    /\ proc = "clean_csv_file" /\ pc = "reading"
    /\ row_num < Len(rows)
    /\ row_num' = row_num + 1
    /\ cleaned_emails' = Append(cleaned_emails,
                                [src |-> row_num', row |-> content_row(rows[row_num'])])
    /\ status' = Append(status, "cleaned")
    /\ UNCHANGED <<proc, header, rows, pc, output, processed, skipped, printed,
                   cleanVars, batchVars>>

\* the reader or the cleaning of a field raises
ContentReadFails ==
    /\ proc = "clean_csv_file" /\ pc = "reading"
    /\ row_num < Len(rows)
    /\ status' = Append(status, "unreadable")
    /\ pc' = "raised"
    /\ UNCHANGED <<proc, header, rows, row_num, cleaned_emails, output,
                   processed, skipped, printed, cleanVars, batchVars>>

\* all rows are read; the output file is opened and the header written
ContentOpenOutput ==
    /\ proc = "clean_csv_file" /\ pc = "reading"
    /\ row_num = Len(rows)
    /\ output' = [exists |-> TRUE, lines |-> <<writeheader("QUOTE_ALL")>>]
    /\ pc' = "writing"
    /\ UNCHANGED <<proc, header, rows, row_num, status, cleaned_emails,
                   processed, skipped, printed, cleanVars, batchVars>>

ContentOpenOutputFails ==
    /\ proc = "clean_csv_file" /\ pc = "reading"
    /\ row_num = Len(rows)
    /\ pc' = "raised"
    /\ UNCHANGED <<proc, header, rows, row_num, status, cleaned_emails, output,
                   processed, skipped, printed, cleanVars, batchVars>>

\* one turn of the writing loop
ContentWriteRow ==
    /\ proc = "clean_csv_file" /\ pc = "writing"
    /\ Len(output.lines) <= Len(cleaned_emails)
    /\ LET email == cleaned_emails[Len(output.lines)]
       IN  output' = [output EXCEPT !.lines =
                          Append(@, writerow(email.row, "QUOTE_ALL", email.src))]
    /\ UNCHANGED <<proc, header, rows, pc, row_num, status, cleaned_emails,
                   processed, skipped, printed, cleanVars, batchVars>>

ContentWriteFails ==
    /\ proc = "clean_csv_file" /\ pc = "writing"
    /\ Len(output.lines) <= Len(cleaned_emails)
    /\ pc' = "raised"
    /\ UNCHANGED <<proc, header, rows, row_num, status, cleaned_emails, output,
                   processed, skipped, printed, cleanVars, batchVars>>

ContentDone ==
    /\ proc = "clean_csv_file" /\ pc = "writing"
    /\ Len(output.lines) = Len(cleaned_emails) + 1
    /\ printed' = Append(printed, Message("Cleaned", Len(cleaned_emails)))
    /\ pc' = "done"
    /\ UNCHANGED <<proc, header, rows, row_num, status, cleaned_emails, output,
                   processed, skipped, cleanVars, batchVars>>

\* ------------------------------------------------------------------------
\* A record processor run on one input file
\* ------------------------------------------------------------------------

Init ==
    /\ proc \in {"process_csv_file", "clean_csv_file"}
    /\ header \in Headers
    /\ rows \in Files(header, MaxRows)
    /\ pc = "start"
    /\ row_num = 0
    /\ status = <<>>
    /\ cleaned_emails = <<>>
    /\ output = NoOutput
    /\ processed = 0
    /\ skipped = 0
    /\ printed = <<>>
    /\ NoCall
    /\ NoBatch

Next ==
    \/ OpenFiles
    \/ OpenFails
    \/ ReadRow
    \/ ReadFails
    \/ WriteRow
    \/ SkipRow
    \/ EndOfFile
    \/ ContentOpenInput
    \/ ContentOpenInputFails
    \/ ContentReadRow
    \/ ContentReadFails
    \/ ContentOpenOutput
    \/ ContentOpenOutputFails
    \/ ContentWriteRow
    \/ ContentWriteFails
    \/ ContentDone

Spec == Init /\ [][Next]_vars

\* ------------------------------------------------------------------------
\* clean_all_emails.py: clean_all_email_files
\* ------------------------------------------------------------------------

\* a file of the batch has at most MaxBatchRows data rows
MaxBatchRows == 1

files_to_clean == <<"spam_emails.csv", "promotions_emails.csv", "inbox_emails.csv">>

AllFields == {Fields[k] : k \in 1..Len(Fields)}

\* the rows of the batch files: short rows, subject only
BatchRow == [subject |-> <<"x">>, sender |-> None, body |-> None, date |-> None]

\* What the directory holds for one name of the list: no such file, or a
\* file with its rows; cleaned: the output file of that name exists.
BatchFilePool ==
    {[exists |-> FALSE, rows |-> <<>>, cleaned |-> FALSE]}
        \cup {[exists |-> TRUE, rows |-> [k \in 1..n |-> BatchRow], cleaned |-> FALSE] :
                 n \in 0..MaxBatchRows}

\* os.path.exists(input_file) is false
BatchNotFound ==
    /\ bpc = "loop" /\ file_idx <= Len(files_to_clean)
    /\ ~disk[file_idx].exists
    /\ batch_printed' = Append(batch_printed, Message("not found", file_idx))
    /\ file_idx' = file_idx + 1
    /\ UNCHANGED <<disk, bpc, total_processed, cleanVars, fileVars>>

\* the file exists: process_csv_file is called on it
BatchCall ==
    /\ bpc = "loop" /\ file_idx <= Len(files_to_clean)
    /\ disk[file_idx].exists
    /\ batch_printed' = Append(batch_printed, Message("Cleaning", file_idx))
    /\ bpc' = "in file"
    /\ proc' = "process_csv_file"
    /\ header' = AllFields
    /\ rows' = disk[file_idx].rows
    /\ pc' = "start"
    /\ row_num' = 0
    /\ status' = <<>>
    /\ output' = NoOutput
    /\ processed' = 0
    /\ skipped' = 0
    /\ UNCHANGED <<cleaned_emails, printed, disk, file_idx, total_processed, cleanVars>>

\* process_csv_file has returned and both sizes are read and printed
BatchReturn ==
    /\ bpc = "in file" /\ pc = "done"
    /\ output.exists
    /\ total_processed' = total_processed + 1
    /\ batch_printed' = Append(batch_printed, Message("File size", file_idx))
    /\ disk' = [disk EXCEPT ![file_idx].cleaned = TRUE]
    /\ file_idx' = file_idx + 1
    /\ bpc' = "loop"
    /\ UNCHANGED <<cleanVars, fileVars>>

\* a variant of BatchSizeFails without the handler: what getsize raises
\* leaves clean_all_email_files
BatchSizeRaises ==
    /\ bpc = "in file" /\ pc = "done"
    /\ ~output.exists
    /\ total_processed' = total_processed + 1
    /\ bpc' = "raised"
    /\ UNCHANGED <<batch_printed, disk, file_idx, cleanVars, fileVars>>

\* process_csv_file has returned without an output file: getsize of the
\* output raises, the handler of the loop reports it
BatchSizeFails ==
    /\ bpc = "in file" /\ pc = "done"
    /\ ~output.exists
    /\ total_processed' = total_processed + 1
    /\ batch_printed' = Append(batch_printed, Message("Error cleaning", file_idx))
    /\ file_idx' = file_idx + 1
    /\ bpc' = "loop"
    /\ UNCHANGED <<disk, cleanVars, fileVars>>

\* the cleaned files, as the listing after the summary prints them
RECURSIVE Listing(_)
Listing(k) ==
    IF k = 0 THEN <<>>
    ELSE Listing(k - 1) \o (IF disk[k].cleaned THEN <<Message("cleaned file", k)>> ELSE <<>>)

\* the loop is over: the summary and the listing
BatchSummary ==
    /\ bpc = "loop" /\ file_idx > Len(files_to_clean)
    /\ batch_printed' = batch_printed \o <<Message("Cleaning complete", total_processed)>>
                            \o Listing(Len(files_to_clean))
    /\ bpc' = "done"
    /\ UNCHANGED <<disk, file_idx, total_processed, cleanVars, fileVars>>

InitBatch ==
    /\ disk \in [1..Len(files_to_clean) -> BatchFilePool]
    /\ bpc = "loop"
    /\ file_idx = 1
    /\ total_processed = 0
    /\ batch_printed = <<>>
    /\ NoCall
    /\ NoFile

NextBatch ==
    \/ BatchNotFound
    \/ BatchCall
    \/ OpenFiles
    \/ OpenFails
    \/ ReadRow
    \/ ReadFails
    \/ SkipRow
    \/ WriteRow
    \/ EndOfFile
    \/ BatchReturn
    \/ BatchSizeFails
    \/ BatchSummary

\* the driver is one sequential program: it takes its next step as long as
\* it has one
SpecBatch == InitBatch /\ [][NextBatch]_vars /\ WF_vars(NextBatch)

\* ------------------------------------------------------------------------
\* Properties of the cleaning functions
\* ------------------------------------------------------------------------

\* str.strip() of the argument, "" for None
Trimmed(text) == IF text = None THEN <<>> ELSE Strip(text)

\* C4: clean_email_text never raises, and when a stage raises it returns
\* the original argument with only its leading and trailing whitespace
\* removed, not the output of the stages that ran before the failure.
C4_ReturnsOriginalOnFailure ==
    (fn = "clean_email_text" /\ fault \in 2..7) => ret = Trimmed(arg)

\* the pairs <<i, j>> such that sender[i] is "<", sender[j] the next ">"
\* after it, and at least one character lies between them
Brackets(sender) ==
    {ij \in (1..Len(sender)) \X (1..Len(sender)) :
        /\ sender[ij[1]] = "<"
        /\ sender[ij[2]] = ">"
        /\ ij[2] >= ij[1] + 2
        /\ \A k \in (ij[1] + 1)..(ij[2] - 1) : sender[k] # ">"}

JaneDoe ==
    <<"J", "a", "n", "e", " ", "D", "o", "e", " ", "<", "j", "a", "n", "e", "@",
      "e", "x", "a", "m", "p", "l", "e", ".", "c", "o", "m", ">">>

JaneAddress ==
    <<"j", "a", "n", "e", "@", "e", "x", "a", "m", "p", "l", "e", ".", "c", "o", "m">>

\* C8: clean_sender has exactly three outcomes: "Unknown Sender" for an
\* empty sender; for a sender holding an address in angle brackets, exactly
\* what is between the first such pair of brackets, not cleaned further
\* ("Jane Doe <jane@example.com>" gives "jane@example.com"); any other
\* sender unchanged.
C8_SenderOutcomes ==
    fn = "clean_sender" =>
        /\ Falsy(arg) => ret = UnknownSender
        /\ (~Falsy(arg) /\ Brackets(arg) = {}) => ret = arg
        /\ (~Falsy(arg) /\ Brackets(arg) # {}) =>
              \E ij \in Brackets(arg) :
                  /\ \A o \in Brackets(arg) : ij[1] <= o[1]
                  /\ ret = SubSeq(arg, ij[1] + 1, ij[2] - 1)
        /\ arg = JaneDoe => ret = JaneAddress

C8_Witness == fn = "clean_sender" /\ arg = JaneDoe /\ ret = JaneAddress

\* the subject starts with RE:, FWD: or FW:, in any case
HasReplyPrefix(subject) ==
    \/ AtPosCI(subject, 1, <<"R", "E", ":">>)
    \/ AtPosCI(subject, 1, <<"F", "W", "D", ":">>)
    \/ AtPosCI(subject, 1, <<"F", "W", ":">>)

StackedReply ==
    <<"R", "E", ":", " ", "R", "E", ":", " ", "M", "e", "e", "t", "i", "n", "g",
      " ", "t", "o", "m", "o", "r", "r", "o", "w">>

MeetingTomorrow ==
    <<"M", "e", "e", "t", "i", "n", "g", " ", "t", "o", "m", "o", "r", "r", "o", "w">>

\* C9: clean_subject strips every leading reply/forward prefix, also when
\* several are stacked: "RE: RE: Meeting tomorrow" gives "Meeting tomorrow",
\* and a subject of which nothing remains gives "No Subject".
C9_StripsStackedPrefixes ==
    (fn = "clean_subject" /\ fault = 0) =>
        /\ (~Falsy(arg) /\ HasReplyPrefix(arg)) => ~HasReplyPrefix(ret)
        /\ arg = StackedReply => ret = MeetingTomorrow
        /\ ret # <<>>

\* C10 as stated: cleaning a cleaned text changes nothing, for every text.
C10_IdempotentOnEveryText ==
    fn = "clean_email_text twice" => ret2 = ret

\* C10, amended: cleaning a cleaned text changes nothing when unicode
\* normalization (stage 7) changed nothing in the first pass and the second
\* pass finds nothing to decode, to remove as markup, to redact or to drop
\* as a signature (stages 1..4 leave the cleaned text as it is).
C10_IdempotentWhenNothingLeft ==
    fn = "clean_email_text twice" =>
        LET first  == Pipeline(arg, FALSE)
            second == Pipeline(ret, FALSE)
        IN  (first[7] = first[6] /\ second[4] = ret) => ret2 = ret

\* a text the first pass changes, and the second pass does not
C10_Witness ==
    /\ fn = "clean_email_text twice"
    /\ Pipeline(arg, FALSE)[7] = Pipeline(arg, FALSE)[6]
    /\ Pipeline(ret, FALSE)[4] = ret
    /\ ret # <<>>
    /\ ret # arg
    /\ ret2 = ret

\* s holds an http:// or https:// URL: the scheme and at least one
\* character of an address after it
ContainsUrl(s) == \E i \in 1..Len(s) : HttpMatchLen(s, i) > 0

\* s holds a substring that begins with http:// or https://
HasScheme(s) ==
    \E i \in 1..Len(s) :
        \/ AtPos(s, i, <<"h", "t", "t", "p", ":", "/", "/">>)
        \/ AtPos(s, i, <<"h", "t", "t", "p", "s", ":", "/", "/">>)

HasLinkToken(s) == \E i \in 1..Len(s) : AtPos(s, i, <<"l", "i", "n", "k">>)

\* C11: when the text holds a well-formed http:// or https:// URL, the
\* cleaned text holds the token link for it and no substring that begins
\* with http:// or https://.
C11_UrlBecomesLink ==
    (fn \in {"clean_email_text", "clean_email_content"} /\ fault = 0
        /\ ~Falsy(arg) /\ ContainsUrl(arg))
    => (HasLinkToken(ret) /\ ~HasScheme(ret))

ExampleCleaned ==
    <<"H", "e", "l", "l", "o", " ", "w", "o", "r", "l", "d", " ", 
      "V", "i", "s", "i", "t", " ", "l", "i", "n", "k", " ", "n", "o", "w", "!">>

\* C12: cleaning the body "<p>Hello <b>world</b></p>\n\nVisit
\* https://example.com now!!!" gives exactly "Hello world Visit link now!":
\* the blank line between the paragraphs becomes one space.
C12_ExampleBodyCleaned ==
    (fn \in {"clean_email_text", "clean_email_content"} /\ fault = 0
        /\ arg = ExampleBody)
    => ret = ExampleCleaned

\* the line is the signature separator: -- and nothing but whitespace
\* after it
SeparatorLine(line) ==
    /\ AtPos(line, 1, <<"-", "-">>)
    /\ \A k \in 3..Len(line) : IsSpace(line[k])

\* the line matches an entry of the pattern table, the separator included
MatchesPatternTable(line) == SeparatorLine(line) \/ IsSignature(line)

\* C13: signature stripping (stage 4) drops every line that matches an
\* entry of the pattern table, case-insensitively, a line that is the
\* separator -- included, and keeps the other lines in their order.
C13_DropsEveryPatternLine ==
    (fn = "clean_email_text" /\ fault = 0 /\ ~Falsy(arg)) =>
        \A p \in {Pipeline(arg, FALSE)} :
            \A kept \in {{k \in 1..Len(SplitLines(p[3])) :
                              ~MatchesPatternTable(SplitLines(p[3])[k])}} :
                /\ Len(SplitLines(p[4])) = IF kept = {} THEN 1 ELSE Cardinality(kept)
                /\ kept = {} => p[4] = <<>>
                /\ \A k \in kept :
                      SplitLines(p[4])[Cardinality({j \in kept : j <= k})]
                          = SplitLines(p[3])[k]

\* ------------------------------------------------------------------------
\* Properties of the record processors
\* ------------------------------------------------------------------------

\* the lines of the output file after the header
DataRows == IF Len(output.lines) > 0 THEN Tail(output.lines) ELSE <<>>

Printed(msg, n) == \E k \in 1..Len(printed) : printed[k] = Message(msg, n)

\* the output lines made from input row k
LinesOf(k) == {j \in 1..Len(DataRows) : DataRows[j].src = k}

\* the run of the record processor on its file has ended, with both files
\* opened
RunEnded == pc \in {"done", "raised"} /\ output.exists

\* C1: in process_csv_file a row that fails (it cannot be read, cleaning
\* one of its fields raises, or writing it raises) is counted as skipped
\* and reported with its row number, and the rows after it are still read,
\* cleaned and written: when the run on an opened file has ended, every row
\* of the file was handled, and each one was either written or skipped and
\* reported.
C1_FailureConfinedToRow ==
    (proc = "process_csv_file" /\ RunEnded) =>
        /\ Len(status) = Len(rows)
        /\ \A k \in 1..Len(status) :
              \/ status[k] = "written"
              \/ status[k] = "skipped" /\ Printed("Skipping row", k)
        /\ skipped = Cardinality({k \in 1..Len(status) : status[k] # "written"})

\* C2: when process_csv_file has finished a file of N data rows,
\* processed + skipped = N, the output holds exactly processed data rows,
\* and both totals are reported.
C2_CountsAddUp ==
    (proc = "process_csv_file" /\ RunEnded) =>
        /\ processed + skipped = Len(rows)
        /\ Len(DataRows) = processed
        /\ Printed("Successfully cleaned", processed)
        /\ Printed("Skipped", skipped)

\* C3: the output data rows are, in input order, the images of the input
\* rows that did not error out, one output row for each of them, and a row
\* is written before the next one is read.
C3_OrderedOneToOne ==
    /\ \A i, j \in 1..Len(DataRows) : i < j => DataRows[i].src < DataRows[j].src
    /\ \A k \in 1..Len(rows) : Cardinality(LinesOf(k)) <= 1
    /\ RunEnded =>
          \A k \in 1..Len(rows) :
              (k > Len(status) \/ status[k] \in {"written", "cleaned"})
                  => Cardinality(LinesOf(k)) = 1
    /\ \A k \in 1..Len(status) :
          (k < row_num /\ status[k] \in {"written", "cleaned"}) => LinesOf(k) # {}

\* C6: the header and the column order of the output are subject, sender,
\* body, date, and every field of every line, header included, is written
\* quoted.
C6_AllFieldsQuoted ==
    output.exists =>
        /\ Len(output.lines) >= 1
        /\ \A c \in 1..Len(Fields) : output.lines[1].cells[c].val = FieldNames[c]
        /\ \A j \in 1..Len(output.lines) :
              /\ Len(output.lines[j].cells) = Len(Fields)
              /\ \A c \in 1..Len(Fields) : output.lines[j].cells[c].quoted

\* the date of input row k as the reader hands it over; a row that has no
\* date field has the empty date
InputDate(k) ==
    IF "date" \in header /\ rows[k]["date"] # None THEN rows[k]["date"] ELSE <<>>

\* C7: the date of every output row is the date of the input row it was
\* made from, character for character, and is empty when the input has no
\* date column; cleaning subject, sender and body does not change it.
C7_DatePassedThrough ==
    \A j \in 1..Len(DataRows) :
        DataRows[j].cells[Len(Fields)].val = InputDate(DataRows[j].src)

\* a written row whose date the cleaning pipeline would have changed and
\* whose subject it did change
C7_Witness ==
    /\ proc = "process_csv_file"
    /\ \E j \in 1..Len(DataRows) :
          /\ InputDate(DataRows[j].src) # <<>>
          /\ clean_email_text(InputDate(DataRows[j].src), 0) # InputDate(DataRows[j].src)
          /\ DataRows[j].cells[Len(Fields)].val = InputDate(DataRows[j].src)
          /\ DataRows[j].cells[1].val # rows[DataRows[j].src]["subject"]

\* ------------------------------------------------------------------------
\* Properties of the batch driver
\* ------------------------------------------------------------------------

BatchPrinted(msg, n) ==
    \E k \in 1..Len(batch_printed) : batch_printed[k] = Message(msg, n)

\* how many times process_csv_file has printed msg
TimesPrinted(msg) == Cardinality({k \in 1..Len(printed) : printed[k].msg = msg})

\* every file of the list was dealt with: a missing one reported as not
\* found, an existing one handed to process_csv_file, whose run ended in its
\* summary or in its error report, and then reported by the driver
EveryFileReported ==
    /\ \A i \in 1..Len(files_to_clean) :
          IF disk[i].exists
          THEN /\ BatchPrinted("Cleaning", i)
               /\ BatchPrinted("File size", i) \/ BatchPrinted("Error cleaning", i)
          ELSE BatchPrinted("not found", i) /\ ~BatchPrinted("Cleaning", i)
    /\ TimesPrinted("Successfully cleaned") + TimesPrinted("Error processing file")
          = Cardinality({i \in 1..Len(files_to_clean) : disk[i].exists})
    /\ BatchPrinted("Cleaning complete", total_processed)

\* C5: in the batch driver a missing input file or a failure while one file
\* is processed is reported and confined to that file: the other files of
\* the list are still processed, nothing escapes the driver, and it always
\* reaches its final summary.
C5_BatchReachesSummary ==
    /\ <>(bpc = "done")
    /\ [](bpc = "done" => EveryFileReported)

\* the summary is reached after a missing first file, a second file whose
\* output could not be opened and a third file that failed at its first row
C5_Witness ==
    /\ bpc = "done"
    /\ ~disk[1].exists
    /\ BatchPrinted("Error cleaning", 2)
    /\ BatchPrinted("File size", 3)
    /\ status = <<"unreadable">>

====
